---- MODULE Spec2Model ----
(***************************************************************************)
(* Model of the Google Chat takeout loader (src/gchat.py), of the Read AI   *)
(* loader's lazyload (src/read_ai.py) and of the Gmail loader's            *)
(* get_messages and load (src/gmail.py).                                   *)
(*                                                                         *)
(* Strings are sequences of atoms (an atom is a TLA+ string standing for a *)
(* run of characters that the code never splits).  A date string is a      *)
(* sequence of words (the runs between white space), each word a sequence  *)
(* of atoms.  Python values carry their type in the field "kind".          *)
(***************************************************************************)
EXTENDS Integers, Sequences, FiniteSets, TLC

VARIABLES
    messages,         \* data['messages'] of the messages.json being processed
    membership_info,  \* user_info_data['membership_info'] (the roster)
    dir_name,         \* what load found in the sub-folder's name: "dm", "space", "other"
    pc,               \* "call" before the chunker ran, then "returned" or "raised"
    result,           \* the list the chunker returned
    exc,              \* the exception that left the chunker ("none" when it returned)
    datetime_str,     \* the argument of a direct datetime_to_epoch call
    epoch_time,       \* what that call returned
    date_pc,          \* "call", "returned", "raised", or "idle"
    \* ACsReadAILoader.lazyload
    rai_session,      \* what the three endpoints answer for the session, and the local time zone
    rai_pc,           \* "call", "returned", "raised", or "idle"
    rai_heap,         \* the mutable objects lazyload has created; an address is a position
    rai_metadata,     \* the address of the compiled meeting metadata
    rai_documents,    \* the list lazyload returned
    \* GoogleMailLoader.load
    gm_pages,         \* the pages the server holds for the query
    gm_mail,          \* how the server answers a fetch of each message id
    gm_pc,            \* "list", "fetch", "finish", "done", "raised", or "idle"
    page_token,       \* get_messages: the token of the next request
    gm_requests,      \* the pageToken of every list request made so far
    gm_messages,      \* the message list get_messages collects and load walks
    gm_index,         \* load: the position of the loop over the messages
    emails_details,   \* load: the documents collected
    failed_downloads  \* load: the failures recorded

chatVars == <<messages, membership_info, dir_name, pc, result, exc,
              datetime_str, epoch_time, date_pc>>
readaiVars == <<rai_session, rai_pc, rai_heap, rai_metadata, rai_documents>>
gmailVars == <<gm_pages, gm_mail, gm_pc, page_token, gm_requests, gm_messages,
               gm_index, emails_details, failed_downloads>>

vars == <<messages, membership_info, dir_name, pc, result, exc,
          datetime_str, epoch_time, date_pc,
          rai_session, rai_pc, rai_heap, rai_metadata, rai_documents,
          gm_pages, gm_mail, gm_pc, page_token, gm_requests, gm_messages,
          gm_index, emails_details, failed_downloads>>

-----------------------------------------------------------------------------
(* Python values *)

PyNone == [kind |-> "none"]
PyStr(s) == [kind |-> "str", s |-> s]
PyInt(n) == [kind |-> "int", n |-> n]
PyDict(name) == [kind |-> "dict", name |-> name]
\* A key that the dict does not hold.
Absent == [kind |-> "absent"]

\* dict.get(key, default): the default only when the key is missing.
Get(field, default) == IF field.kind = "absent" THEN default ELSE field

\* The outcome of a call: a returned value, or an exception.
Return(v) == [exc |-> "none", val |-> v]
Raise(e) == [exc |-> e, val |-> PyNone]

\* str(v) as an f-string formats it.
Format(v) == IF v.kind = "none" THEN <<"None">> ELSE v.s

RECURSIVE Concat(_)
\* ''.join(parts)
Concat(parts) == IF parts = <<>> THEN <<>> ELSE Head(parts) \o Concat(Tail(parts))

RECURSIVE Split(_, _)
\* s.split(sep): the runs of atoms between occurrences of sep.
Split(s, sep) ==
    IF \A k \in 1..Len(s) : s[k] # sep
    THEN <<s>>
    ELSE LET k == CHOOSE k \in 1..Len(s) :
                      s[k] = sep /\ \A m \in 1..(k - 1) : s[m] # sep
         IN  <<SubSeq(s, 1, k - 1)>> \o Split(SubSeq(s, k + 1, Len(s)), sep)

\* a in b, for strings: a is a contiguous run of b.
Contains(b, a) ==
    \E k \in 0..(Len(b) - Len(a)) : SubSeq(b, k + 1, k + Len(a)) = a

-----------------------------------------------------------------------------
(* datetime_to_epoch *)

Weekdays == {"Monday", "Tuesday", "Wednesday", "Thursday", "Friday",
             "Saturday", "Sunday"}
Months == <<"January", "February", "March", "April", "May", "June", "July",
            "August", "September", "October", "November", "December">>
Digits == <<"0", "1", "2", "3", "4", "5", "6", "7", "8", "9">>

IsDigit(c) == \E k \in 1..10 : Digits[k] = c
DigitVal(c) == (CHOOSE k \in 1..10 : Digits[k] = c) - 1
IsNumeral(w) == w # <<>> /\ \A k \in 1..Len(w) : IsDigit(w[k])

RECURSIVE NumVal(_)
NumVal(w) ==
    IF w = <<>> THEN 0
    ELSE 10 * NumVal(SubSeq(w, 1, Len(w) - 1)) + DigitVal(w[Len(w)])

\* A directive of one or two digits whose value lies in lo..hi
\* (%d: 1..31, %I: 1..12, %M: 0..59, %S: 0..61).
MatchesNum(w, lo, hi) ==
    IsNumeral(w) /\ Len(w) <= 2 /\ NumVal(w) >= lo /\ NumVal(w) <= hi

UnknownDate == << <<"Unknown">>, <<"Date">> >>

\* datetime_str.replace("UTC", "").strip(), as the words that are left.
StripUTC(str) ==
    LET cut == [k \in 1..Len(str) |-> SelectSeq(str[k], LAMBDA c : c # "UTC")]
    IN  SelectSeq(cut, LAMBDA w : w # <<>>)

\* The words match "%A, %B %d, %Y at %I:%M:%S %p" with nothing left over.
MatchesFormat(w) ==
    /\ Len(w) = 7
    /\ Len(w[1]) = 2 /\ w[1][1] \in Weekdays /\ w[1][2] = ","
    /\ Len(w[2]) = 1 /\ \E m \in 1..12 : Months[m] = w[2][1]
    /\ Len(w[3]) >= 2 /\ w[3][Len(w[3])] = ","
    /\ MatchesNum(SubSeq(w[3], 1, Len(w[3]) - 1), 1, 31)
    /\ Len(w[4]) = 4 /\ IsNumeral(w[4])
    /\ w[5] = <<"at">>
    /\ LET t == Split(w[6], ":")
       IN  /\ Len(t) = 3
           /\ MatchesNum(t[1], 1, 12)
           /\ MatchesNum(t[2], 0, 59)
           /\ MatchesNum(t[3], 0, 61)
    /\ w[7] \in {<<"AM">>, <<"PM">>}

IsLeap(y) == y % 4 = 0 /\ (y % 100 # 0 \/ y % 400 = 0)
DaysInMonth(y, m) ==
    IF m = 2 THEN (IF IsLeap(y) THEN 29 ELSE 28)
    ELSE IF m \in {4, 6, 9, 11} THEN 30 ELSE 31

RECURSIVE DaysBeforeMonth(_, _)
DaysBeforeMonth(y, m) ==
    IF m = 1 THEN 0 ELSE DaysBeforeMonth(y, m - 1) + DaysInMonth(y, m - 1)

DaysBeforeYear(y) ==
    (y - 1) * 365 + ((y - 1) \div 4) - ((y - 1) \div 100) + ((y - 1) \div 400)

\* The proleptic Gregorian ordinal of a date (1 = January 1 of year 1).
Ordinal(y, m, d) == DaysBeforeYear(y) + DaysBeforeMonth(y, m) + d

\* ParsedFields with the 12 o'clock hours not folded (12 AM stays 12, 12 PM
\* becomes 24).
ParsedFieldsNoNoon(w) ==
    LET t == Split(w[6], ":")
        h == NumVal(t[1])
    IN  [year   |-> NumVal(w[4]),
         month  |-> CHOOSE m \in 1..12 : Months[m] = w[2][1],
         day    |-> NumVal(SubSeq(w[3], 1, Len(w[3]) - 1)),
         hour   |-> IF w[7] = <<"AM">> THEN h ELSE h + 12,
         minute |-> NumVal(t[2]),
         second |-> NumVal(t[3])]

\* The fields strptime reads from words that match the format.
ParsedFields(w) ==
    LET t == Split(w[6], ":")
        h == NumVal(t[1])
    IN  [year   |-> NumVal(w[4]),
         month  |-> CHOOSE m \in 1..12 : Months[m] = w[2][1],
         day    |-> NumVal(SubSeq(w[3], 1, Len(w[3]) - 1)),
         hour   |-> IF w[7] = <<"AM">> THEN (IF h = 12 THEN 0 ELSE h)
                                       ELSE (IF h = 12 THEN 12 ELSE h + 12),
         minute |-> NumVal(t[2]),
         second |-> NumVal(t[3])]

\* datetime(...) accepts the fields.
ValidDatetime(f) ==
    /\ f.year >= 1
    /\ f.day <= DaysInMonth(f.year, f.month)
    /\ f.second <= 59

\* int(datetime_obj.replace(tzinfo=pytz.utc).timestamp())
Timestamp(f) ==
    (Ordinal(f.year, f.month, f.day) - Ordinal(1970, 1, 1)) * 86400
        + f.hour * 3600 + f.minute * 60 + f.second

\* strptime raises ValueError: the outcome of the except branch.
ValueErrorBranch == Return(PyNone)

DatetimeToEpoch(v) ==
    IF v.kind = "str" /\ v.s = UnknownDate THEN Return(PyNone)
    ELSE IF v.kind # "str" THEN Raise("AttributeError")
    ELSE LET w == StripUTC(v.s)
         IN  IF MatchesFormat(w) /\ ValidDatetime(ParsedFields(w))
             THEN Return(PyInt(Timestamp(ParsedFields(w))))
             ELSE ValueErrorBranch

-----------------------------------------------------------------------------
(* The chunker: process_spaces and process_dms *)

FirstCentre == 10
Step == 19
Back == 10
Ahead == 11

Max(a, b) == IF a >= b THEN a ELSE b
Min(a, b) == IF a <= b THEN a ELSE b

RoomUrl == <<"https://chat.google.com/room/">>
DmUrl == <<"https://chat.google.com/dm/">>

\* messages[j] with Python's index (the first message is messages[0]).
Msg(msgs, j) == msgs[j + 1]

\* SpaceNameFrom that stops at the first matching entry, named or not.
RECURSIVE SpaceNameFromAnyMatch(_, _, _)
SpaceNameFromAnyMatch(info, group_id_part, k) ==
    IF k > Len(info) THEN PyStr(<<"Unknown Space">>)
    ELSE IF Contains(info[k].group_id, group_id_part)
         THEN (IF info[k].group_name.kind \notin {"absent", "none"}
               THEN info[k].group_name
               ELSE PyStr(<<"Unknown Space">>))
         ELSE SpaceNameFromAnyMatch(info, group_id_part, k + 1)

\* get_space_name: the roster entries from position k on.
RECURSIVE SpaceNameFrom(_, _, _)
SpaceNameFrom(info, group_id_part, k) ==
    IF k > Len(info) THEN PyStr(<<"Unknown Space">>)
    ELSE IF /\ Contains(info[k].group_id, group_id_part)
            /\ info[k].group_name.kind \notin {"absent", "none"}
         THEN info[k].group_name
         ELSE SpaceNameFrom(info, group_id_part, k + 1)

GetSpaceName(info, message_id) ==
    IF message_id.kind # "str" THEN Raise("AttributeError")
    ELSE Return(SpaceNameFrom(info, Split(message_id.s, "/")[1], 1))

\* The space name process_spaces resolves before it walks the windows.
SpaceName(msgs, info) ==
    IF msgs # <<>>
    THEN GetSpaceName(info, Get(Msg(msgs, 0).message_id, PyStr(<<>>)))
    ELSE Return(PyStr(<<"Unknown Space">>))

\* message.get('creator', {}).get('name', 'Unknown')
CreatorName(m) ==
    LET creator == Get(m.creator, PyDict(Absent))
    IN  IF creator.kind # "dict" THEN Raise("AttributeError")
        ELSE Return(Get(creator.name, PyStr(<<"Unknown">>)))

\* UniqueNamesFrom without the membership test: every creator is appended.
RECURSIVE UniqueNamesFromAll(_, _, _)
UniqueNamesFromAll(msgs, j, unique_names) ==
    IF j >= Len(msgs) THEN Return(unique_names)
    ELSE LET c == CreatorName(Msg(msgs, j))
         IN  IF c.exc # "none" THEN c
             ELSE UniqueNamesFromAll(msgs, j + 1, Append(unique_names, c.val))

\* The loop of process_dms that collects unique_names, from message j on.
RECURSIVE UniqueNamesFrom(_, _, _)
UniqueNamesFrom(msgs, j, unique_names) ==
    IF j >= Len(msgs) THEN Return(unique_names)
    ELSE LET c == CreatorName(Msg(msgs, j))
         IN  IF c.exc # "none" THEN c
             ELSE IF \E k \in 1..Len(unique_names) : unique_names[k] = c.val
                  THEN UniqueNamesFrom(msgs, j + 1, unique_names)
                  ELSE UniqueNamesFrom(msgs, j + 1, Append(unique_names, c.val))

\* WindowRange that stops before i+10 (the end of the range taken as inclusive).
WindowRangeExclusive(n, i) ==
    LET lo == Max(0, i - Back)
        hi == Min(n, i + Ahead - 1)
    IN  [k \in 1..Max(0, hi - lo) |-> lo + k - 1]

\* WindowRange that runs one message further, to i+11.
WindowRangeWide(n, i) ==
    LET lo == Max(0, i - Back)
        hi == Min(n, i + Ahead + 1)
    IN  [k \in 1..Max(0, hi - lo) |-> lo + k - 1]

\* The indices the inner loop visits: range(max(0, i-10), min(len(messages), i+11)).
WindowRange(n, i) ==
    LET lo == Max(0, i - Back)
        hi == Min(n, i + Ahead)
    IN  [k \in 1..Max(0, hi - lo) |-> lo + k - 1]

\* One pass of the inner loop: the part appended for message j.
Part(m) ==
    LET c == CreatorName(m)
    IN  IF c.exc # "none" THEN c
        ELSE Return(Format(c.val) \o <<"\n">>
                      \o Format(Get(m.text, PyStr(<<"No text available">>)))
                      \o <<"\n", "\n">>)

\* Metadata with the id and the URL taken from the middle message.
MetadataMiddleId(msgs, i, type, name, url) ==
    LET middlemessage == Msg(msgs, i)
        startmessage == Msg(msgs, i)
        unix_time == DatetimeToEpoch(Get(middlemessage.created_date, PyStr(UnknownDate)))
    IN  IF unix_time.exc # "none" THEN unix_time
        ELSE Return([source     |-> "chats",
                     type       |-> type,
                     name       |-> name,
                     message_id |-> Get(startmessage.message_id, PyStr(<<"Unknown ID">>)),
                     date       |-> Get(middlemessage.created_date, PyStr(UnknownDate)),
                     unix_time  |-> unix_time.val,
                     url        |-> url \o Format(Get(startmessage.message_id, PyStr(<<>>)))])

\* The metadata mapping of the window centred on i.
Metadata(msgs, i, type, name, url) ==
    LET middlemessage == Msg(msgs, i)
        startmessage == Msg(msgs, i - Back)
        unix_time == DatetimeToEpoch(Get(middlemessage.created_date, PyStr(UnknownDate)))
    IN  IF unix_time.exc # "none" THEN unix_time
        ELSE Return([source     |-> "chats",
                     type       |-> type,
                     name       |-> name,
                     message_id |-> Get(startmessage.message_id, PyStr(<<"Unknown ID">>)),
                     date       |-> Get(middlemessage.created_date, PyStr(UnknownDate)),
                     unix_time  |-> unix_time.val,
                     url        |-> url \o Format(Get(startmessage.message_id, PyStr(<<>>)))])

\* One pass of the outer loop: the document of the window centred on i.
\* The fields i and window record the loop indices; they are not part of
\* the returned dictionary.
Document(msgs, i, type, name, url) ==
    LET metadata == Metadata(msgs, i, type, name, url)
        window == WindowRange(Len(msgs), i)
        parts == [k \in 1..Len(window) |-> Part(Msg(msgs, window[k]))]
    IN  IF metadata.exc # "none" THEN metadata
        ELSE IF \E k \in 1..Len(parts) : parts[k].exc # "none"
        THEN Raise("AttributeError")
        ELSE Return([metadata |-> metadata.val,
                     text     |-> Concat([k \in 1..Len(parts) |-> parts[k].val]),
                     i        |-> i,
                     window   |-> window])

\* Chunk that steps by the window size less one, 20, instead of 19.
RECURSIVE ChunkStep20(_, _, _, _, _, _)
ChunkStep20(msgs, i, type, name, url, acc) ==
    IF i >= Len(msgs) THEN Return(acc)
    ELSE LET doc == Document(msgs, i, type, name, url)
         IN  IF doc.exc # "none" THEN doc
             ELSE ChunkStep20(msgs, i + Step + 1, type, name, url, Append(acc, doc.val))

\* for i in range(10, len(messages), 19), from centre i on.
RECURSIVE Chunk(_, _, _, _, _, _)
Chunk(msgs, i, type, name, url, acc) ==
    IF i >= Len(msgs) THEN Return(acc)
    ELSE LET doc == Document(msgs, i, type, name, url)
         IN  IF doc.exc # "none" THEN doc
             ELSE Chunk(msgs, i + Step, type, name, url, Append(acc, doc.val))

ProcessSpacesResult(msgs, info) ==
    LET space_name == SpaceName(msgs, info)
    IN  IF space_name.exc # "none" THEN space_name
        ELSE Chunk(msgs, FirstCentre, "space", space_name.val, RoomUrl, <<>>)

ProcessDmsResult(msgs) ==
    LET unique_names == UniqueNamesFrom(msgs, 0, <<>>)
    IN  IF unique_names.exc # "none" THEN unique_names
        ELSE Chunk(msgs, FirstCentre, "dm",
                   [kind |-> "list", items |-> unique_names.val], DmUrl, <<>>)

-----------------------------------------------------------------------------
(* Inputs *)

\* Bounds of the model.
MaxLen == 49          \* longest message sequence
MaxRoster == 2        \* longest membership roster

BaseNames == <<"A", "B", "A", "C">>

TwoDigits(k) == <<Digits[(k \div 10) + 1], Digits[(k % 10) + 1]>>

\* A date string in the takeout format, as words.
DateString(weekday, month, day, year, time, ampm, tz) ==
    << <<weekday, ",">>, <<month>>, day \o <<",">>, year, <<"at">>, time, <<ampm>> >> \o tz

\* The regular message at index k: every field present, the date well formed.
RegularMessage(k) ==
    [creator      |-> PyDict(PyStr(<<BaseNames[(k % 4) + 1]>>)),
     text         |-> PyStr(<<"text ", ToString(k)>>),
     created_date |-> PyStr(DateString("Monday", "January", <<"1">>,
                                       <<"2", "0", "2", "4">>,
                                       TwoDigits(1 + ((k \div 60) % 12)) \o <<":">>
                                           \o TwoDigits(k % 60) \o <<":", "0", "0">>,
                                       "AM", << <<"UTC">> >>)),
     message_id   |-> PyStr(<<"AAAA", "/", ToString(k)>>)]

\* What a message of a takeout file can hold instead of the regular field.
Anomalies ==
    {[field |-> "creator", value |-> v] :
        v \in {Absent, PyNone, PyDict(Absent), PyDict(PyNone), PyDict(PyStr(<<"D">>))}}
    \cup {[field |-> "text", value |-> v] : v \in {Absent, PyNone}}
    \cup {[field |-> "created_date", value |-> v] :
        v \in {Absent, PyNone, PyStr(UnknownDate), PyStr(<< <<"garbage">> >>)}}
    \cup {[field |-> "message_id", value |-> v] :
        v \in {Absent, PyNone, PyStr(<<"no-slash">>), PyStr(<<"BBBB", "/", "x">>)}}

WithAnomaly(m, a) == [m EXCEPT ![a.field] = a.value]

\* n messages, regular but for the anomaly a at index s (s = n: none).
MessageSequence(n, s, a) ==
    [k \in 1..n |-> IF k - 1 = s THEN WithAnomaly(RegularMessage(k - 1), a)
                                 ELSE RegularMessage(k - 1)]

RosterEntries ==
    {[group_id |-> g, group_name |-> nm] :
        g \in {<<"Space ", "AAAA">>, <<"Space ", "BBBB">>},
        nm \in {Absent, PyNone, PyStr(<<"Team">>), PyStr(<<"Lunch">>)}}

Rosters == UNION {[1..k -> RosterEntries] : k \in 0..MaxRoster}

DefaultRoster == <<[group_id |-> <<"Space ", "AAAA">>, group_name |-> PyStr(<<"Team">>)]>>

DateInputs ==
    {PyNone, PyStr(UnknownDate), PyStr(<< <<"garbage">> >>)}
    \cup {PyStr(DateString(wd, mo, d, y, t, ap, tz)) :
            wd \in {"Monday", "Tuesday", "Mon"},
            mo \in {"January", "February", "December"},
            d \in {<<"1">>, <<"0", "1">>, <<"2", "9">>, <<"3", "1">>, <<"3", "2">>},
            y \in {<<"1", "9", "7", "0">>, <<"2", "0", "2", "3">>, <<"2", "0", "2", "4">>},
            t \in {<<"0", "9", ":", "3", "0", ":", "0", "0">>,
                   <<"1", "2", ":", "0", "0", ":", "0", "0">>,
                   <<"1", ":", "5", ":", "7">>,
                   <<"1", "3", ":", "0", "0", ":", "0", "0">>,
                   <<"1", "1", ":", "5", "9", ":", "6", "0">>},
            ap \in {"AM", "PM"},
            tz \in {<<>>, << <<"UTC">> >>, << <<"PST">> >>, << <<"CET">> >>}}

-----------------------------------------------------------------------------
(* The state machine *)

NoDateCall == datetime_str = PyNone /\ epoch_time = PyNone /\ date_pc = "idle"
NoFolder ==
    /\ messages = <<>> /\ membership_info = <<>> /\ dir_name = "other"
    /\ pc = "idle" /\ result = <<>> /\ exc = "none"

\* load meets a sub-folder with a messages.json: any message sequence with
\* at most one anomalous message, under the default roster.
InitMessages ==
    /\ \E n \in 0..MaxLen :
          \/ messages = MessageSequence(n, n, CHOOSE a \in Anomalies : TRUE)
          \/ \E s \in 0..(n - 1), a \in Anomalies :
                messages = MessageSequence(n, s, a)
    /\ membership_info = DefaultRoster
    /\ dir_name \in {"dm", "space"}
    /\ pc = "call" /\ result = <<>> /\ exc = "none"
    /\ NoDateCall

\* load meets a space folder: any roster, the first message's id varied.
InitRoster ==
    /\ \E n \in {0, FirstCentre + 1, FirstCentre + Step + 1} :
          \/ messages = MessageSequence(n, n, CHOOSE a \in Anomalies : TRUE)
          \/ \E a \in {b \in Anomalies : b.field = "message_id"} :
                n > 0 /\ messages = MessageSequence(n, 0, a)
    /\ membership_info \in Rosters
    /\ dir_name = "space"
    /\ pc = "call" /\ result = <<>> /\ exc = "none"
    /\ NoDateCall

\* load meets a sub-folder that is neither a DM nor a space.
InitOther ==
    /\ \E n \in 0..MaxLen :
          messages = MessageSequence(n, n, CHOOSE a \in Anomalies : TRUE)
    /\ membership_info = DefaultRoster
    /\ dir_name = "other"
    /\ pc = "call" /\ result = <<>> /\ exc = "none"
    /\ NoDateCall

\* datetime_to_epoch is called on its own.
InitDate ==
    /\ NoFolder
    /\ datetime_str \in DateInputs
    /\ epoch_time = PyNone
    /\ date_pc = "call"

\* No Read AI session is being loaded.
NoSession ==
    /\ rai_session = PyNone /\ rai_pc = "idle" /\ rai_heap = <<>>
    /\ rai_metadata = 0 /\ rai_documents = <<>>

\* No Gmail query is being loaded.
NoQuery ==
    /\ gm_pages = <<>> /\ gm_mail = <<>> /\ gm_pc = "idle"
    /\ page_token = PyNone /\ gm_requests = <<>> /\ gm_messages = <<>>
    /\ gm_index = 0 /\ emails_details = <<>> /\ failed_downloads = <<>>

Init ==
    /\ InitMessages \/ InitRoster \/ InitOther \/ InitDate
    /\ NoSession
    /\ NoQuery

\* What the caller sees of an outcome.
Finish(outcome) ==
    /\ pc' = IF outcome.exc = "none" THEN "returned" ELSE "raised"
    /\ result' = IF outcome.exc = "none" THEN outcome.val ELSE <<>>
    /\ exc' = outcome.exc
    /\ UNCHANGED <<messages, membership_info, dir_name, datetime_str, epoch_time, date_pc>>
    /\ UNCHANGED <<readaiVars, gmailVars>>

ProcessSpaces ==
    /\ pc = "call" /\ dir_name = "space"
    /\ Finish(ProcessSpacesResult(messages, membership_info))

ProcessDms ==
    /\ pc = "call" /\ dir_name = "dm"
    /\ Finish(ProcessDmsResult(messages))

\* load: a folder named neither "dm" nor "space" is passed over.
SkipFolder ==
    /\ pc = "call" /\ dir_name = "other"
    /\ pc' = "skipped"
    /\ UNCHANGED <<messages, membership_info, dir_name, result, exc,
                   datetime_str, epoch_time, date_pc>>
    /\ UNCHANGED <<readaiVars, gmailVars>>

CallDatetimeToEpoch ==
    /\ date_pc = "call"
    /\ LET outcome == DatetimeToEpoch(datetime_str)
       IN  /\ date_pc' = IF outcome.exc = "none" THEN "returned" ELSE "raised"
           /\ epoch_time' = outcome.val
    /\ UNCHANGED <<messages, membership_info, dir_name, pc, result, exc, datetime_str>>
    /\ UNCHANGED <<readaiVars, gmailVars>>

Next == ProcessSpaces \/ ProcessDms \/ SkipFolder \/ CallDatetimeToEpoch

Spec == Init /\ [][Next]_vars

-----------------------------------------------------------------------------
(* Properties *)

NumMessages == Len(messages)
Returned == pc = "returned"

\* The centre index the specification gives the k-th document.
ClaimCentre(k) == 10 + 19 * (k - 1)

\* The indices lo..hi as a sequence.
Interval(lo, hi) == [k \in 1..(hi - lo + 1) |-> lo + k - 1]

\* C1: a sequence of n messages gives 0 documents when n <= 10 and
\* floor((n - 11) / 19) + 1 documents when n > 10, from both process_spaces
\* and process_dms; the k-th document is the one centred on 10 + 19 (k - 1),
\* and every centre is less than n.
C1_DocumentCount ==
    Returned =>
        /\ Len(result) = IF NumMessages <= 10 THEN 0
                         ELSE ((NumMessages - 11) \div 19) + 1
        /\ \A k \in 1..Len(result) :
              result[k].i = ClaimCentre(k) /\ result[k].i < NumMessages
        /\ ClaimCentre(Len(result) + 1) >= NumMessages

C1_Witness ==
    /\ Returned /\ dir_name = "dm" /\ NumMessages = 49
    /\ Len(result) = 3 /\ result[3].i = 48

\* The name and the text a block shows for a message: the string itself, the
\* sentinel when the field is absent, and Python's "None" for a null.
ClaimShownName(m) ==
    IF m.creator.kind = "absent" THEN <<"Unknown">>
    ELSE IF m.creator.name.kind = "absent" THEN <<"Unknown">>
    ELSE IF m.creator.name.kind = "none" THEN <<"None">>
    ELSE m.creator.name.s

ClaimShownText(m) ==
    IF m.text.kind = "absent" THEN <<"No text available">>
    ELSE IF m.text.kind = "none" THEN <<"None">>
    ELSE m.text.s

ClaimBlock(m) == ClaimShownName(m) \o <<"\n">> \o ClaimShownText(m) \o <<"\n", "\n">>

RECURSIVE ClaimText(_, _)
\* The blocks of the messages at indices lo..hi, in index order.
ClaimText(lo, hi) ==
    IF lo > hi THEN <<>> ELSE ClaimBlock(Msg(messages, lo)) \o ClaimText(lo + 1, hi)

\* C2: the text of the document centred on i is the concatenation, in index
\* order, of one block "{creator_name}\n{text}\n\n" for each message at the
\* indices max(0, i-10) .. min(n-1, i+10) and for no other message; 40
\* messages give a second document whose window is [19, 39].
C2_WindowText ==
    Returned =>
        /\ \A k \in 1..Len(result) :
              /\ result[k].text =
                    ClaimText(Max(0, ClaimCentre(k) - 10),
                              Min(NumMessages - 1, ClaimCentre(k) + 10))
              /\ result[k].window =
                    Interval(Max(0, ClaimCentre(k) - 10),
                             Min(NumMessages - 1, ClaimCentre(k) + 10))
        /\ NumMessages = 40 =>
              /\ Len(result) = 2
              /\ result[2].window = Interval(19, 39)
              /\ result[2].text = ClaimText(19, 39)

C2_Witness ==
    /\ Returned /\ NumMessages = 40 /\ Len(result) = 2
    /\ \E j \in 19..39 : Msg(messages, j).text.kind = "absent"
    /\ result[2].text = ClaimText(19, 39)

\* C3: for the document centred on i, 'message_id' and 'url' come from the
\* message at index i-10 and 'date' and 'unix_time' from the message at index
\* i, with "Unknown ID" and "Unknown Date" for an absent field; 21 messages
\* give exactly one document, anchored at indices 0 and 10.
C3_MetadataAnchors ==
    Returned =>
        /\ \A k \in 1..Len(result) :
              LET startmessage == Msg(messages, ClaimCentre(k) - 10)
                  middlemessage == Msg(messages, ClaimCentre(k))
                  id == startmessage.message_id
                  date == middlemessage.created_date
                  md == result[k].metadata
              IN  /\ md.message_id = IF id.kind = "absent" THEN PyStr(<<"Unknown ID">>) ELSE id
                  /\ md.url = (IF dir_name = "space" THEN RoomUrl ELSE DmUrl)
                                 \o (IF id.kind = "absent" THEN <<>> ELSE Format(id))
                  /\ md.date = IF date.kind = "absent" THEN PyStr(UnknownDate) ELSE date
                  /\ md.unix_time = DatetimeToEpoch(md.date).val
        /\ NumMessages = 21 =>
              /\ Len(result) = 1
              /\ result[1].i = 10
              /\ result[1].window = Interval(0, 20)

C3_Witness ==
    /\ Returned /\ NumMessages = 21 /\ Len(result) = 1
    /\ Msg(messages, 0).message_id.kind = "absent"
    /\ result[1].metadata.message_id = PyStr(<<"Unknown ID">>)
    /\ result[1].metadata.date = Msg(messages, 10).created_date
    /\ result[1].metadata.unix_time.kind = "int"

\* C4: the returned list includes all messages of the processed folder:
\* every message index 0..n-1 lies in the window of at least one document.
C4_AllMessagesIncluded ==
    Returned =>
        \A j \in 0..(NumMessages - 1) :
            \E k \in 1..Len(result) :
                \E p \in 1..Len(result[k].window) : result[k].window[p] = j

\* C5: no exception propagates out of the chunker, whatever fields of a
\* message are absent or null and however malformed a date is.
C5_NoExceptionPropagates == pc # "raised"

\* The reading of a date string in the format
\* 'Weekday, Month Day, Year at HH:MM:SS AM/PM TZ' with any or no TZ word.
ClaimTime(s) == Split(s[6], ":")
ClaimYear(s) == NumVal(s[4])
ClaimMonth(s) == CHOOSE m \in 1..12 : Months[m] = s[2][1]
ClaimDay(s) == NumVal(SubSeq(s[3], 1, Len(s[3]) - 1))
ClaimHour(s) == (NumVal(ClaimTime(s)[1]) % 12) + (IF s[7] = <<"PM">> THEN 12 ELSE 0)

ClaimMonthLength(y, m) ==
    IF m \in {1, 3, 5, 7, 8, 10, 12} THEN 31
    ELSE IF m # 2 THEN 30
    ELSE IF (y % 400 = 0) \/ (y % 4 = 0 /\ y % 100 # 0) THEN 29 ELSE 28

ClaimInFormat(s) ==
    /\ Len(s) \in {7, 8}
    /\ Len(s[1]) = 2 /\ s[1][1] \in Weekdays /\ s[1][2] = ","
    /\ Len(s[2]) = 1 /\ \E m \in 1..12 : Months[m] = s[2][1]
    /\ Len(s[3]) \in {2, 3} /\ s[3][Len(s[3])] = ","
    /\ IsNumeral(SubSeq(s[3], 1, Len(s[3]) - 1))
    /\ Len(s[4]) = 4 /\ IsNumeral(s[4]) /\ ClaimYear(s) >= 1
    /\ ClaimDay(s) >= 1 /\ ClaimDay(s) <= ClaimMonthLength(ClaimYear(s), ClaimMonth(s))
    /\ s[5] = <<"at">>
    /\ Len(ClaimTime(s)) = 3
    /\ \A k \in 1..3 : IsNumeral(ClaimTime(s)[k]) /\ Len(ClaimTime(s)[k]) <= 2
    /\ NumVal(ClaimTime(s)[1]) \in 1..12
    /\ NumVal(ClaimTime(s)[2]) \in 0..59
    /\ NumVal(ClaimTime(s)[3]) \in 0..59
    /\ s[7] \in {<<"AM">>, <<"PM">>}
    /\ Len(s) = 8 => Len(s[8]) = 1

\* Days from 1970-01-01 to the civil date y-m-d, by eras of 400 years.
ClaimDaysFromCivil(y, m, d) ==
    LET yy == IF m <= 2 THEN y - 1 ELSE y
        era == yy \div 400
        yoe == yy - era * 400
        mp == IF m > 2 THEN m - 3 ELSE m + 9
        doy == ((153 * mp + 2) \div 5) + d - 1
        doe == yoe * 365 + (yoe \div 4) - (yoe \div 100) + doy
    IN  era * 146097 + doe - 719468

\* The unix time of the wall-clock date and time of s, taken as UTC.
ClaimUnixTime(s) ==
    ClaimDaysFromCivil(ClaimYear(s), ClaimMonth(s), ClaimDay(s)) * 86400
        + ClaimHour(s) * 3600
        + NumVal(ClaimTime(s)[2]) * 60 + NumVal(ClaimTime(s)[3])

ExampleDate ==
    DateString("Monday", "January", <<"1">>, <<"2", "0", "2", "4">>,
               <<"0", "9", ":", "3", "0", ":", "0", "0">>, "AM", << <<"UTC">> >>)

DateCallDone == date_pc \in {"returned", "raised"}

\* C6 as stated: datetime_to_epoch returns the unix time of the wall-clock
\* date and time read as UTC, whatever the timezone word of the string is.
C6_AnyZoneAsUTC ==
    (DateCallDone /\ datetime_str.kind = "str" /\ ClaimInFormat(datetime_str.s)) =>
        /\ date_pc = "returned"
        /\ epoch_time = PyInt(ClaimUnixTime(datetime_str.s))

\* C6 amended: datetime_to_epoch returns the unix time of the wall-clock date
\* and time read as UTC when the timezone word is "UTC" or is missing, and
\* null when it is any other word; the example date gives 1704101400.
C6_UTCZoneOnly ==
    (DateCallDone /\ datetime_str.kind = "str" /\ ClaimInFormat(datetime_str.s)) =>
        /\ date_pc = "returned"
        /\ (Len(datetime_str.s) = 7 \/ datetime_str.s[8] = <<"UTC">>)
              => epoch_time = PyInt(ClaimUnixTime(datetime_str.s))
        /\ (Len(datetime_str.s) = 8 /\ datetime_str.s[8] # <<"UTC">>)
              => epoch_time = PyNone
        /\ datetime_str.s = ExampleDate => epoch_time = PyInt(1704101400)

C6_Witness ==
    /\ date_pc = "returned"
    /\ datetime_str = PyStr(ExampleDate)
    /\ epoch_time = PyInt(1704101400)

\* C7: datetime_to_epoch returns null for "Unknown Date" and for every input
\* that does not parse, and raises for no input the chunker can hand it.
C7_NullNeverRaises ==
    DateCallDone =>
        /\ date_pc = "returned"
        /\ datetime_str = PyStr(UnknownDate) => epoch_time = PyNone
        /\ datetime_str = PyStr(<< <<"garbage">> >>) => epoch_time = PyNone

\* The group-id prefix: the text before the first '/' of the message id
\* (the whole id when it holds none, the empty string when it is absent).
ClaimPrefix(id) ==
    IF id.kind = "absent" THEN <<>>
    ELSE IF \E k \in 1..Len(id.s) : id.s[k] = "/"
         THEN SubSeq(id.s, 1, (CHOOSE k \in 1..Len(id.s) :
                                  id.s[k] = "/" /\ \A m \in 1..(k - 1) : id.s[m] # "/") - 1)
         ELSE id.s

\* The roster positions whose group_id matches the prefix.
ClaimMatches ==
    {k \in 1..Len(membership_info) :
        Contains(membership_info[k].group_id, ClaimPrefix(Msg(messages, 0).message_id))}

ClaimNamedMatches ==
    {k \in ClaimMatches : membership_info[k].group_name.kind = "str"}

Least(S) == CHOOSE k \in S : \A m \in S : k <= m

\* C8 as stated: the space name is the group name of the first roster entry
\* whose group_id matches the prefix, "Unknown Space" when none matches, and
\* the same for every document.
C8_FirstMatchWins ==
    (Returned /\ dir_name = "space") =>
        \A k \in 1..Len(result) :
            result[k].metadata.name =
                IF ClaimMatches = {} THEN PyStr(<<"Unknown Space">>)
                ELSE membership_info[Least(ClaimMatches)].group_name

\* C8 amended: the space name is the group name of the first roster entry
\* whose group_id contains the prefix and that holds a non-null group_name,
\* "Unknown Space" when there is no such entry, and the same for every
\* document of the sequence; an empty sequence gives no document.
C8_FirstNamedMatchWins ==
    (Returned /\ dir_name = "space") =>
        /\ \A k \in 1..Len(result) :
              result[k].metadata.name =
                  IF ClaimNamedMatches = {} THEN PyStr(<<"Unknown Space">>)
                  ELSE membership_info[Least(ClaimNamedMatches)].group_name
        /\ NumMessages = 0 => result = <<>>

C8_Witness ==
    /\ Returned /\ dir_name = "space" /\ Len(result) = 2
    /\ Len(membership_info) = 2
    /\ ClaimMatches = {1, 2} /\ ClaimNamedMatches = {2}
    /\ result[1].metadata.name = membership_info[2].group_name
    /\ result[2].metadata.name = membership_info[2].group_name

\* The creator name of each message, as process_dms reads it.
ClaimCreator(m) ==
    IF m.creator.kind = "absent" THEN PyStr(<<"Unknown">>)
    ELSE IF m.creator.name.kind = "absent" THEN PyStr(<<"Unknown">>)
    ELSE m.creator.name

\* The indices of the messages whose creator appears for the first time.
ClaimFirstAppearances ==
    {j \in 0..(NumMessages - 1) :
        \A m \in 0..(j - 1) : ClaimCreator(Msg(messages, m)) # ClaimCreator(Msg(messages, j))}

\* C9: in process_dms the 'name' of every document lists the distinct creator
\* names of the entire sequence, without duplicates and in order of first
\* appearance, and is the same for every document; creators A, B, A, C give
\* A, B, C.
C9_UniqueNames ==
    (Returned /\ dir_name = "dm") =>
        \A k \in 1..Len(result) :
            LET names == result[k].metadata.name.items
            IN  /\ Len(names) = Cardinality(ClaimFirstAppearances)
                /\ \A p, q \in 1..Len(names) : p # q => names[p] # names[q]
                /\ \A j \in ClaimFirstAppearances :
                      names[Cardinality({m \in ClaimFirstAppearances : m <= j})]
                          = ClaimCreator(Msg(messages, j))
                /\ result[k].metadata.name = result[1].metadata.name
                /\ (\A j \in 0..(NumMessages - 1) :
                        Msg(messages, j).creator = RegularMessage(j).creator)
                      => names = <<PyStr(<<"A">>), PyStr(<<"B">>), PyStr(<<"C">>)>>

C9_Witness ==
    /\ Returned /\ dir_name = "dm" /\ Len(result) = 3
    /\ Msg(messages, 40).creator = PyDict(PyStr(<<"D">>))
    /\ \A k \in 1..3 :
          result[k].metadata.name.items
              = <<PyStr(<<"A">>), PyStr(<<"B">>), PyStr(<<"C">>), PyStr(<<"D">>)>>

\* The message indices of the k-th document's window.
WindowSet(k) == {result[k].window[p] : p \in 1..Len(result[k].window)}

\* C10: two consecutive documents overlap by exactly 2 messages, the last
\* two of the earlier window being the first two of the later one, and no
\* message belongs to more than two windows.
C10_OverlapByTwo ==
    Returned =>
        /\ \A k \in 1..(Len(result) - 1) :
              LET w == result[k].window
                  v == result[k + 1].window
              IN  /\ Len(w) >= 2 /\ Len(v) >= 2
                  /\ SubSeq(w, Len(w) - 1, Len(w)) = SubSeq(v, 1, 2)
                  /\ Cardinality(WindowSet(k) \cap WindowSet(k + 1)) = 2
                  /\ SubSeq(result[k + 1].text, 1,
                            Len(ClaimText(v[1], v[2])))
                        = ClaimText(w[Len(w) - 1], w[Len(w)])
        /\ \A j \in 0..(NumMessages - 1) :
              Cardinality({k \in 1..Len(result) : j \in WindowSet(k)}) <= 2

C10_Witness ==
    /\ Returned /\ Len(result) = 3
    /\ WindowSet(1) \cap WindowSet(2) = {19, 20}
    /\ WindowSet(2) \cap WindowSet(3) = {38, 39}

\* C11: every window holds at most 21 consecutive messages; a window holds
\* fewer than 21 only when it is the last of its sequence, and every other
\* document holds exactly 21.
C11_WindowSize ==
    Returned =>
        \A k \in 1..Len(result) :
            LET w == result[k].window
            IN  /\ Len(w) >= 1 /\ Len(w) <= 21
                /\ \A p \in 1..(Len(w) - 1) : w[p + 1] = w[p] + 1
                /\ k < Len(result) => Len(w) = 21
                /\ result[k].text = ClaimText(w[1], w[Len(w)])

C11_Witness ==
    /\ Returned /\ Len(result) = 2
    /\ Len(result[1].window) = 21
    /\ Len(result[2].window) = 11

\* The fields the two variants are said to share.
SharedFields(doc) ==
    <<doc.text, doc.metadata.message_id, doc.metadata.date, doc.metadata.unix_time>>

\* The outcomes agree: both raise, or both return as many documents with
\* the same text, message_id, date and unix_time, and the same source.
VariantsAgree(spaces, dms) ==
    /\ (spaces.exc = "none") <=> (dms.exc = "none")
    /\ (spaces.exc = "none" /\ dms.exc = "none") =>
          /\ Len(spaces.val) = Len(dms.val)
          /\ \A k \in 1..Len(spaces.val) :
                /\ SharedFields(spaces.val[k]) = SharedFields(dms.val[k])
                /\ spaces.val[k].metadata.source = dms.val[k].metadata.source

\* C12: run on the same message sequence, process_spaces and process_dms
\* return the same number of documents, the k-th documents having the same
\* text, message_id, date and unix_time; the outcome of the variant that ran
\* is compared with what the other variant gives for the same sequence.
C12_VariantsDifferInMetadataOnly ==
    /\ (pc \in {"returned", "raised"} /\ dir_name = "space") =>
          VariantsAgree([exc |-> exc, val |-> result], ProcessDmsResult(messages))
    /\ (pc \in {"returned", "raised"} /\ dir_name = "dm") =>
          VariantsAgree(ProcessSpacesResult(messages, membership_info),
                        [exc |-> exc, val |-> result])

-----------------------------------------------------------------------------
(* ACsReadAILoader.lazyload *)

\* Bounds of the model.
MaxItems == 2         \* most key questions, and most action items, of a session
MaxTurns == 2         \* most turns of a transcript
MaxSpeakers == 2      \* most participants of a session

\* {n:02d}
Pad2(n) == IF n < 10 THEN <<"0", ToString(n)>> ELSE <<ToString(n)>>

RECURSIVE Join(_, _)
\* sep.join(parts)
Join(sep, parts) ==
    IF parts = <<>> THEN <<>>
    ELSE IF Len(parts) = 1 THEN parts[1]
    ELSE parts[1] \o sep \o Join(sep, Tail(parts))

\* str(list) of a list of strings.
PyRepr(list) ==
    <<"[">> \o Join(<<", ">>, [k \in 1..Len(list) |-> <<"'">> \o list[k] \o <<"'">>])
            \o <<"]">>

FormatTimeDelta(milliseconds) ==
    LET total == milliseconds \div 1000
        hours == total \div 3600
        remainder == total - hours * 3600
        minutes == remainder \div 60
        seconds == remainder % 60
    IN  IF hours > 0
        THEN <<ToString(hours), ":">> \o Pad2(minutes) \o <<":">> \o Pad2(seconds)
        ELSE <<ToString(minutes), ":">> \o Pad2(seconds)

\* strptime(start_time, "%Y-%m-%dT%H:%M:%S.%f"): the fields, or ValueError.
ParseStartTime(start_time) ==
    LET halves == Split(start_time, "T")
        date == Split(halves[1], "-")
        clock == Split(halves[2], ".")
        time == Split(clock[1], ":")
    IN  IF /\ Len(halves) = 2
           /\ Len(date) = 3 /\ Len(clock) = 2 /\ Len(time) = 3
           /\ IsNumeral(date[1]) /\ Len(date[1]) = 4 /\ NumVal(date[1]) >= 1
           /\ MatchesNum(date[2], 1, 12)
           /\ MatchesNum(date[3], 1, DaysInMonth(NumVal(date[1]), NumVal(date[2])))
           /\ MatchesNum(time[1], 0, 23)
           /\ MatchesNum(time[2], 0, 59)
           /\ MatchesNum(time[3], 0, 59)
           /\ IsNumeral(clock[2]) /\ Len(clock[2]) <= 6
        THEN Return([year   |-> NumVal(date[1]),
                     month  |-> NumVal(date[2]),
                     day    |-> NumVal(date[3]),
                     hour   |-> NumVal(time[1]),
                     minute |-> NumVal(time[2]),
                     second |-> NumVal(time[3])])
        ELSE Raise("ValueError")

\* format_date: strftime("%d. %B %Y") of the parsed start time.
FormatDate(f) ==
    Pad2(f.day) \o <<". ", Months[f.month], " ", ToString(f.year)>>

\* timestamp_to_unix: the start time is naive, so it is read as local time.
TimestampToUnix(f, utc_offset) == Timestamp(f) - utc_offset * 3600

\* response.json() of what a get_..._data method returned: the method hands
\* back a string, not a response, when the status is not 200.
Json(response) ==
    IF response.status = 200 THEN Return(response.json) ELSE Raise("AttributeError")

CompileParticipants(postcall_json) == postcall_json.participants

\* compile_metadata, before the speakers are added: the key 'speakers' is
\* not set yet (address 0) and 'text_type' is missing.
CompileMetadata(json, utc_offset) ==
    LET f == ParseStartTime(json.start_time)
    IN  IF f.exc # "none" THEN f
        ELSE Return([source           |-> "meetings",
                     id               |-> json.id,
                     title            |-> json.title,
                     date             |-> FormatDate(f.val),
                     unix_time        |-> TimestampToUnix(f.val, utc_offset),
                     meeting_platform |-> json.meeting_platform,
                     meeting_id       |-> json.meeting_id,
                     start_time       |-> json.start_time,
                     end_time         |-> json.end_time,
                     url              |-> <<"https://app.read.ai/analytics/meetings/">>
                                              \o json.id,
                     speakers         |-> 0,
                     text_type        |-> Absent])

\* compile_summary: any failure to reach the summary text gives "".
CompileSummary(json) ==
    IF json.summary.kind = "str" THEN json.summary.s ELSE <<>>

CompileKeyQuestions(json) == [k \in 1..Len(json.keyQuestions) |-> json.keyQuestions[k].text]
CompileActionItems(json) == [k \in 1..Len(json.actionItems) |-> json.actionItems[k].text]

\* One pass of compile_transcript's loop.
CompileTurn(turns, k) ==
    FormatTimeDelta(turns[k].words[1].startTime - turns[1].words[1].startTime)
        \o <<" - ">> \o turns[k].speaker.name \o <<":\n">>
        \o Join(<<" ">>, [w \in 1..Len(turns[k].words) |-> turns[k].words[w].value])
        \o <<"\n\n">>

CompileTranscript(json) ==
    Concat([k \in 1..Len(json.turns) |-> CompileTurn(json.turns, k)])

\* metadata['speakers'] = speakers; summary_metadata['text_type'] = 'summary'
SetSpeakers(heap, address, speakers) == [heap EXCEPT ![address].speakers = speakers]
SetTextType(heap, address, text_type) ==
    [heap EXCEPT ![address].text_type = PyStr(<<text_type>>)]

\* The copy taken as a second name for the same mapping (x_metadata = metadata).
AliasCopy(heap, address) == [heap |-> heap, address |-> address]

\* copy.deepcopy(metadata): a new mapping that refers to a new speakers list.
DeepCopy(heap, address) ==
    LET with_list == Append(heap, heap[heap[address].speakers])
        with_dict == Append(with_list, [heap[address] EXCEPT !.speakers = Len(with_list)])
    IN  [heap |-> with_dict, address |-> Len(with_dict)]

\* The copy of the metadata for one document, with its text type.
CopyFor(heap, metadata, text_type) ==
    LET copy == DeepCopy(heap, metadata)
    IN  [heap |-> SetTextType(copy.heap, copy.address, text_type), address |-> copy.address]

\* lazyload(session_id): the outcome, with the heap it leaves.
Lazyload(session) ==
    LET postcall == Json(session.postcall)
        meeting == Json(session.session)
        transcript == Json(session.transcript)
        compiled == CompileMetadata(meeting.val, session.utc_offset)
        failed(e) == [exc |-> e, heap |-> <<>>, metadata |-> 0, documents |-> <<>>]
    IN  IF postcall.exc # "none" THEN failed(postcall.exc)
        ELSE IF meeting.exc # "none" THEN failed(meeting.exc)
        ELSE IF compiled.exc # "none" THEN failed(compiled.exc)
        ELSE IF transcript.exc # "none" THEN failed(transcript.exc)
        ELSE
        LET heap0 == <<CompileParticipants(postcall.val), compiled.val>>
            heap1 == SetSpeakers(heap0, 2, 1)
            summary == CopyFor(heap1, 2, "summary")
            key_questions == CopyFor(summary.heap, 2, "key_questions")
            action_items == CopyFor(key_questions.heap, 2, "action_items")
            transcript_copy == CopyFor(action_items.heap, 2, "transcript")
        IN  [exc       |-> "none",
             heap      |-> transcript_copy.heap,
             metadata  |-> 2,
             documents |->
                <<[metadata |-> summary.address,
                   text     |-> CompileSummary(transcript.val)],
                  [metadata |-> key_questions.address,
                   text     |-> PyRepr(CompileKeyQuestions(transcript.val))],
                  [metadata |-> action_items.address,
                   text     |-> PyRepr(CompileActionItems(transcript.val))],
                  [metadata |-> transcript_copy.address,
                   text     |-> CompileTranscript(transcript.val)]>>]

(* Inputs *)

Response(status, json) == [status |-> status, json |-> json]

SessionJson ==
    [id               |-> <<"01HXSESSION">>,
     title            |-> <<"Weekly sync">>,
     start_time       |-> <<"2", "0", "2", "4", "-", "0", "3", "-", "0", "5", "T",
                            "0", "9", ":", "3", "0", ":", "0", "0", ".",
                            "1", "2", "3", "4", "5", "6">>,
     end_time         |-> <<"2024-03-05T10:30:00.000000">>,
     meeting_platform |-> <<"meet">>,
     meeting_id       |-> <<"abc-defg-hij">>]

PostcallJson(n) == [participants |-> [k \in 1..n |-> <<"speaker ", ToString(k)>>]]

Turn(k) ==
    [speaker |-> [name |-> <<"speaker ", ToString(k)>>],
     words   |-> <<[startTime |-> 1000 + (k - 1) * 3725000, value |-> <<"hello">>],
                   [startTime |-> 1400 + (k - 1) * 3725000, value |-> <<"all">>]>>]

TranscriptJson(summary, questions, items, turns) ==
    [summary      |-> summary,
     keyQuestions |-> [k \in 1..questions |-> [text |-> <<"question ", ToString(k)>>]],
     actionItems  |-> [k \in 1..items |-> [text |-> <<"item ", ToString(k)>>]],
     turns        |-> [k \in 1..turns |-> Turn(k)]]

Statuses == {200, 404}

InitSession ==
    /\ \E s1, s2, s3 \in Statuses, offset \in {0, 1},
          summary \in {PyNone, PyStr(<<"The summary.">>)},
          questions, items \in 0..MaxItems, turns \in 0..MaxTurns,
          speakers \in 0..MaxSpeakers :
          rai_session =
             [session    |-> Response(s1, SessionJson),
              transcript |-> Response(s2, TranscriptJson(summary, questions, items, turns)),
              postcall   |-> Response(s3, PostcallJson(speakers)),
              utc_offset |-> offset]
    /\ rai_pc = "call" /\ rai_heap = <<>> /\ rai_metadata = 0 /\ rai_documents = <<>>

InitReadAI == InitSession /\ NoFolder /\ NoDateCall /\ NoQuery

CallLazyload ==
    /\ rai_pc = "call"
    /\ LET outcome == Lazyload(rai_session)
       IN  /\ rai_pc' = IF outcome.exc = "none" THEN "returned" ELSE "raised"
           /\ rai_heap' = outcome.heap
           /\ rai_metadata' = outcome.metadata
           /\ rai_documents' = outcome.documents
    /\ UNCHANGED <<rai_session, chatVars, gmailVars>>

NextReadAI == CallLazyload

SpecReadAI == InitReadAI /\ [][NextReadAI]_vars

\* The metadata mapping of the k-th returned document.
DocMetadata(k) == rai_heap[rai_documents[k].metadata]
CompiledMetadata == rai_heap[rai_metadata]
TranscriptOf(session) == session.transcript.json

FetchesSucceed ==
    /\ rai_session.session.status = 200
    /\ rai_session.transcript.status = 200
    /\ rai_session.postcall.status = 200

\* C13: when the three fetches succeed lazyload returns exactly 4 documents,
\* in the order summary, key questions, action items, transcript; their
\* metadata mappings are separate objects (down to the speakers list), equal
\* to the compiled meeting metadata with its speakers in every field, and
\* different from each other only in 'text_type'.
C13_FourDocuments ==
    (rai_pc \in {"returned", "raised"} /\ FetchesSucceed) =>
        /\ rai_pc = "returned"
        /\ Len(rai_documents) = 4
        /\ [k \in 1..4 |-> DocMetadata(k).text_type] =
              <<PyStr(<<"summary">>), PyStr(<<"key_questions">>),
                PyStr(<<"action_items">>), PyStr(<<"transcript">>)>>
        /\ rai_documents[1].text = CompileSummary(TranscriptOf(rai_session))
        /\ rai_documents[2].text = PyRepr(CompileKeyQuestions(TranscriptOf(rai_session)))
        /\ rai_documents[3].text = PyRepr(CompileActionItems(TranscriptOf(rai_session)))
        /\ rai_documents[4].text = CompileTranscript(TranscriptOf(rai_session))
        /\ \A k \in 1..4 :
              /\ rai_documents[k].metadata # rai_metadata
              /\ DocMetadata(k).speakers # CompiledMetadata.speakers
              /\ \A m \in 1..4 : m # k =>
                    /\ rai_documents[k].metadata # rai_documents[m].metadata
                    /\ DocMetadata(k).speakers # DocMetadata(m).speakers
              /\ [DocMetadata(k) EXCEPT !.text_type = Absent, !.speakers = 0]
                    = [CompiledMetadata EXCEPT !.speakers = 0]
              /\ rai_heap[DocMetadata(k).speakers] = rai_heap[CompiledMetadata.speakers]
        /\ CompiledMetadata.text_type = Absent
        /\ CompiledMetadata.id = rai_session.session.json.id
        /\ rai_heap[CompiledMetadata.speakers] = rai_session.postcall.json.participants

C13_Witness ==
    /\ rai_pc = "returned" /\ Len(rai_documents) = 4
    /\ Len(rai_session.postcall.json.participants) = 2
    /\ Len(TranscriptOf(rai_session).turns) = 2
    /\ rai_documents[1].text = <<"The summary.">>
    /\ rai_documents[2].text = <<"[", "'", "question ", "1", "'", "]">>
    /\ rai_documents[4].text =
          <<"0", ":", "0", "0", " - ", "speaker ", "1", ":\n", "hello", " ", "all", "\n\n",
            "1", ":", "0", "2", ":", "0", "5", " - ", "speaker ", "2", ":\n",
            "hello", " ", "all", "\n\n">>
    /\ DocMetadata(4).date = <<"0", "5", ". ", "March", " ", "2024">>

-----------------------------------------------------------------------------
(* GoogleMailLoader.get_messages and GoogleMailLoader.load *)

\* Bounds of the model.
MaxPages == 3         \* most pages the server holds for a query
MaxRequests == 4      \* most list requests followed (the server's tokens may go round)
MaxMails == 3         \* most messages of the query whose fetch may fail

\* The token the server hands out for its k-th page, and the page it answers
\* a request with (the first page when the request carries no token).
TokenOf(k) == PyStr(<<"token ", ToString(k)>>)
PageOf(pages, token) ==
    IF token = PyNone THEN 1
    ELSE CHOOSE k \in 1..Len(pages) : TokenOf(k) = token

MessageId(k, j) == <<"msg ", ToString(k), ".", ToString(j)>>

\* A JSON array.
PyList(items) == [kind |-> "list", items |-> items]

\* not page_token
Falsy(v) == v.kind = "none" \/ (v.kind = "str" /\ v.s = <<>>)

\* One pass of get_messages's loop with the messages assigned, not extended.
ListStepOverwrite(pages, token, collected) ==
    LET response == pages[PageOf(pages, token)]
        next == Get(response.nextPageToken, PyNone)
    IN  [messages   |-> Get(response.messages, PyList(<<>>)).items,
         page_token |-> next,
         break      |-> Falsy(next)]

\* One pass of get_messages's loop: the request with the current token, the
\* messages of the response appended, the next token read.
ListStep(pages, token, collected) ==
    LET response == pages[PageOf(pages, token)]
        next == Get(response.nextPageToken, PyNone)
    IN  [messages   |-> collected \o Get(response.messages, PyList(<<>>)).items,
         page_token |-> next,
         break      |-> Falsy(next)]

\* get_message_details(message_id): the document of a message that the
\* server delivers and that decodes, an exception otherwise.  The text of the
\* body is left out of the document.
GetMessageDetails(mail, message_id) ==
    IF mail[message_id] = "gone" THEN Raise("HttpError")
    ELSE IF mail[message_id] = "undecodable" THEN Raise("UnicodeDecodeError")
    ELSE Return([metadata |->
                    [source     |-> "emails",
                     message_id |-> message_id,
                     url        |-> <<"https://mail.google.com/mail/u/0/?ogbl#inbox/">>
                                        \o message_id]])

\* The except branch of load: the message is fetched once more, without
\* format='raw', to record it; that request can fail as the first did.
RecordFailure(mail, message_id, error) ==
    IF mail[message_id] = "gone" THEN Raise("HttpError")
    ELSE Return([message_id    |-> message_id,
                 error_message |-> error,
                 email         |-> <<"{'id': '">> \o message_id \o <<"', ...}">>])

(* Inputs *)

\* A page of the server: with or without 'messages', with or without a
\* nextPageToken (which may name any page).
PageChoices(k, pages) ==
    {[messages |-> ms, nextPageToken |-> nx] :
        ms \in {Absent, PyList(<<[id |-> MessageId(k, 1)], [id |-> MessageId(k, 2)]>>)},
        nx \in {Absent} \cup {TokenOf(m) : m \in 1..pages}}

PageSequences(pages) ==
    {ps \in [1..pages -> UNION {PageChoices(k, pages) : k \in 1..pages}] :
        \A k \in 1..pages : ps[k] \in PageChoices(k, pages)}

\* The message ids the pages hold.
AllIds(pages) ==
    UNION {{pages[k].messages.items[j].id : j \in 1..Len(pages[k].messages.items)} :
              k \in {m \in 1..Len(pages) : pages[m].messages.kind = "list"}}

MailKinds == {"ok", "undecodable", "gone"}

StartOfLoad ==
    /\ gm_pc = "list" /\ page_token = PyNone /\ gm_requests = <<>>
    /\ gm_messages = <<>> /\ gm_index = 0
    /\ emails_details = <<>> /\ failed_downloads = <<>>

\* load(query) on a server with any pages; every message can be fetched.
InitPages ==
    /\ \E pages \in 1..MaxPages : gm_pages \in PageSequences(pages)
    /\ gm_mail = [id \in AllIds(gm_pages) |-> "ok"]
    /\ StartOfLoad

\* load(query) on a server with one page; any message may fail.
InitMails ==
    /\ \E n \in 0..MaxMails :
          gm_pages = <<[messages      |-> PyList([j \in 1..n |-> [id |-> MessageId(1, j)]]),
                        nextPageToken |-> Absent]>>
    /\ gm_mail \in [AllIds(gm_pages) -> MailKinds]
    /\ StartOfLoad

InitGmail == (InitPages \/ InitMails) /\ NoFolder /\ NoDateCall /\ NoSession

\* get_messages: one pass of the while loop; when the loop breaks,
\* get_messages returns and load starts to walk the messages.
ListPage ==
    /\ gm_pc = "list" /\ Len(gm_requests) < MaxRequests
    /\ LET step == ListStep(gm_pages, page_token, gm_messages)
       IN  /\ gm_requests' = Append(gm_requests, page_token)
           /\ gm_messages' = step.messages
           /\ page_token' = step.page_token
           /\ gm_pc' = IF step.break THEN "fetch" ELSE "list"
    /\ UNCHANGED <<gm_pages, gm_mail, gm_index, emails_details, failed_downloads>>
    /\ UNCHANGED <<chatVars, readaiVars>>

\* load: one pass of the for loop, the try and its except branch.
FetchMessage ==
    /\ gm_pc = "fetch" /\ gm_index < Len(gm_messages)
    /\ LET id == gm_messages[gm_index + 1].id
           details == GetMessageDetails(gm_mail, id)
           failure == RecordFailure(gm_mail, id, details.exc)
       IN  IF details.exc = "none"
           THEN /\ emails_details' = Append(emails_details, details.val)
                /\ gm_index' = gm_index + 1
                /\ UNCHANGED <<failed_downloads, gm_pc>>
           ELSE IF failure.exc = "none"
           THEN /\ failed_downloads' = Append(failed_downloads, failure.val)
                /\ gm_index' = gm_index + 1
                /\ UNCHANGED <<emails_details, gm_pc>>
           ELSE /\ gm_pc' = "raised"
                /\ UNCHANGED <<emails_details, failed_downloads, gm_index>>
    /\ UNCHANGED <<gm_pages, gm_mail, page_token, gm_requests, gm_messages>>
    /\ UNCHANGED <<chatVars, readaiVars>>

\* load: after the loop failed_downloads is written to failed_downloads.json
\* when it is not empty, and emails_details is returned.
FinishLoad ==
    /\ gm_pc = "fetch" /\ gm_index = Len(gm_messages)
    /\ gm_pc' = "done"
    /\ UNCHANGED <<gm_pages, gm_mail, page_token, gm_requests, gm_messages,
                   gm_index, emails_details, failed_downloads>>
    /\ UNCHANGED <<chatVars, readaiVars>>

NextGmail == ListPage \/ FetchMessage \/ FinishLoad

\* The loader runs alone and to completion: a step that can be taken is taken.
SpecGmail == InitGmail /\ [][NextGmail]_vars /\ WF_vars(NextGmail)

\* The ids of a list of message references, documents or failure records.
IdsOf(list, field) == [k \in 1..Len(list) |-> list[k][field]]
DetailIds == [k \in 1..Len(emails_details) |-> emails_details[k].metadata.message_id]

\* C14: load catches one exception per item and keeps going: a failure while
\* fetching or decoding one message never aborts the load, every message id
\* ends up in exactly one of the returned details and the failed-downloads
\* record, and the returned documents keep the order of the message ids.
C14_FailureNeverAborts ==
    /\ gm_pc # "raised"
    /\ gm_pc = "done" =>
          /\ Len(emails_details) + Len(failed_downloads) = Len(gm_messages)
          /\ DetailIds =
                SelectSeq(IdsOf(gm_messages, "id"), LAMBDA id : gm_mail[id] = "ok")
          /\ IdsOf(failed_downloads, "message_id") =
                SelectSeq(IdsOf(gm_messages, "id"), LAMBDA id : gm_mail[id] # "ok")

\* The response to the k-th list request.
ClaimResponse(k) ==
    IF k = 1 THEN gm_pages[1]
    ELSE gm_pages[CHOOSE p \in 1..Len(gm_pages) : TokenOf(p) = gm_requests[k]]

ClaimMessagesOf(response) ==
    IF response.messages.kind = "absent" THEN <<>> ELSE response.messages.items

RECURSIVE ClaimCollected(_)
\* The messages of the first k responses, in page order.
ClaimCollected(k) ==
    IF k = 0 THEN <<>> ELSE ClaimCollected(k - 1) \o ClaimMessagesOf(ClaimResponse(k))

RECURSIVE ClaimChainEnds(_, _)
\* Following the tokens from page p, the server returns a response without
\* a nextPageToken within fuel further requests.
ClaimChainEnds(p, fuel) ==
    \/ gm_pages[p].nextPageToken.kind = "absent"
    \/ /\ fuel > 0
       /\ ClaimChainEnds(CHOOSE q \in 1..Len(gm_pages) :
                             TokenOf(q) = gm_pages[p].nextPageToken, fuel - 1)

ListingOver == gm_pc \in {"fetch", "done", "raised"}

\* What holds of get_messages at every moment.
C15_Followed ==
    /\ gm_requests # <<>> => gm_requests[1] = PyNone
    /\ \A k \in 2..Len(gm_requests) :
          gm_requests[k] = ClaimResponse(k - 1).nextPageToken
    /\ \A k \in 1..(Len(gm_requests) - 1) :
          ClaimResponse(k).nextPageToken.kind # "absent"
    /\ gm_messages = ClaimCollected(Len(gm_requests))
    /\ gm_pc = "list" =>
          \A k \in 1..Len(gm_requests) : ClaimResponse(k).nextPageToken.kind # "absent"
    /\ ListingOver =>
          /\ gm_requests # <<>>
          /\ ClaimResponse(Len(gm_requests)).nextPageToken.kind = "absent"

\* C15: get_messages requests the first page with no token and each further
\* page with the nextPageToken of the previous response, stops at the first
\* response without a nextPageToken, returns the messages of the fetched pages
\* in page order (a page without 'messages' counting as empty), and
\* terminates when the server's chain of tokens reaches such a response.
C15_Pagination ==
    /\ []C15_Followed
    /\ ClaimChainEnds(1, Len(gm_pages)) => <>ListingOver

C15_Witness ==
    /\ gm_pc = "done" /\ Len(gm_requests) = 3
    /\ gm_pages[PageOf(gm_pages, gm_requests[2])].messages.kind = "absent"
    /\ Len(gm_messages) = 4 /\ Len(emails_details) = 4

====
